---------------------------- MODULE Spec2Model ----------------------------
(***************************************************************************)
(* The upstream request governor of corsproxydemo.py: the per-host backoff *)
(* ledger (CorsProxyServer.backoffs with _active_backoff,                  *)
(* _register_backoff, _clear_backoff), the target validation               *)
(* (_parse_target, _host_key) and the /raw handler (proxy_raw).            *)
(*                                                                         *)
(* Time is counted in ticks, TicksPerSecond ticks to the second, so that   *)
(* instants inside a second (datetime has microseconds) exist.  Delays     *)
(* are whole seconds, as in the code.                                      *)
(*                                                                         *)
(* proxy_raw is a coroutine with one suspension point, the await of        *)
(* client.get: what runs before it is one action (proxy_raw), what runs    *)
(* after it is another (proxy_raw_resume).                                 *)
(***************************************************************************)
EXTENDS Integers, Sequences, FiniteSets, TLC

VARIABLES
    now,        \* the clock _now() reads, in ticks
    config,     \* backoff_base_seconds, backoff_max_seconds, long_backoff_seconds
    backoffs,   \* self.backoffs: a dict, host -> BackoffRecord
    inflight,   \* per request slot: "idle", or the coroutine suspended in client.get
    last,       \* what the last step did and answered (observation of the step)
    streak,     \* history: per host, short registrations since the host had no record
    outcomes,   \* history: per host, short-backoff outcomes since the last success
    held,       \* history: per host, the end of the latest long backoff registered
    via         \* history: per host, the target whose request stored the record

vars == <<now, config, backoffs, inflight, last, streak, outcomes, held, via>>

---------------------------------------------------------------------------
(* Bounds of the model *)

TicksPerSecond == 2
MaxTime == 31
MaxRequests == 2
MaxAttempts == 7
MaxConfigTime == 1

(* Program constants *)

DefaultBackoffBase == 30
DefaultBackoffMax == 900
DefaultLongBackoff == 86400
ConnectionFailedStatus == 503

DefaultConfig ==
    [backoff_base_seconds |-> DefaultBackoffBase,
     backoff_max_seconds  |-> DefaultBackoffMax,
     long_backoff_seconds |-> DefaultLongBackoff]

long_backoff_statuses == {403, 404, 500}

---------------------------------------------------------------------------
(* Python values *)

None == <<>>
Some(x) == <<x>>

\* Optional[int] in a condition: None and 0 are false.
Truthy(opt) == opt # None /\ opt[1] # 0

Max(a, b) == IF a >= b THEN a ELSE b
Min(a, b) == IF a <= b THEN a ELSE b

\* dict.get / dict.pop(k, None) / dict[k] = v on a dict modelled as a function
Has(d, k) == k \in DOMAIN d
Get(d, k) == IF k \in DOMAIN d THEN Some(d[k]) ELSE None
Pop(d, k) == [x \in DOMAIN d \ {k} |-> d[x]]
Put(d, k, v) == [x \in DOMAIN d \cup {k} |-> IF x = k THEN v ELSE d[x]]

---------------------------------------------------------------------------
(* float(text) and int(float) on the Retry-After texts the model draws.    *)
(* A finite value is sign, whole part and tenths; huge marks a finite      *)
(* value too large for datetime (1e12 seconds).                            *)

Finite(neg, whole, tenths) ==
    [kind |-> "finite", neg |-> neg, whole |-> whole, tenths |-> tenths, huge |-> FALSE]

float(text) ==
    CASE text = "0"     -> Finite(FALSE, 0, 0)
      [] text = "45"    -> Finite(FALSE, 45, 0)
      [] text = "120"   -> Finite(FALSE, 120, 0)
      [] text = "120.5" -> Finite(FALSE, 120, 5)
      [] text = "1000"  -> Finite(FALSE, 1000, 0)
      [] text = "-5"    -> Finite(TRUE, 5, 0)
      [] text = "1e12"  -> [Finite(FALSE, 0, 0) EXCEPT !.huge = TRUE]
      [] text = "nan"   -> [Finite(FALSE, 0, 0) EXCEPT !.kind = "nan"]
      [] text = "inf"   -> [Finite(FALSE, 0, 0) EXCEPT !.kind = "inf"]
      [] OTHER          -> [Finite(FALSE, 0, 0) EXCEPT !.kind = "ValueError"]

\* int(f) of a finite float: truncation toward zero.
int(f) == [huge |-> f.huge, n |-> IF f.neg THEN 0 - f.whole ELSE f.whole]

\* Lines 166-172: the header as an Optional int; ValueError is caught,
\* OverflowError (int(inf)) is not.
parse_retry_after(retry_after_header) ==
    IF retry_after_header = None \/ retry_after_header[1] = ""
    THEN [exc |-> "", val |-> None]
    ELSE LET f == float(retry_after_header[1]) IN
         CASE f.kind = "ValueError" -> [exc |-> "", val |-> None]
           [] f.kind = "nan"        -> [exc |-> "", val |-> None]
           [] f.kind = "inf"        -> [exc |-> "OverflowError", val |-> None]
           [] OTHER                 -> [exc |-> "", val |-> Some(int(f))]

---------------------------------------------------------------------------
(* The backoff ledger *)

BackoffRecord(until, attempts, status) ==
    [until |-> until, attempts |-> attempts, status |-> status]

timedelta(seconds) == seconds * TicksPerSecond

\* int(delta.total_seconds()) of a positive delta: whole seconds, rounded down.
total_seconds_int(ticks) == ticks \div TicksPerSecond

\* Variant: a check that finds an open window counts as an attempt.
active_backoff_counting(b, host, t) ==
    IF ~Has(b, host) THEN [wait |-> None, backoffs |-> b]
    ELSE IF b[host].until <= t THEN [wait |-> None, backoffs |-> Pop(b, host)]
    ELSE [wait |-> Some(total_seconds_int(b[host].until - t)),
          backoffs |-> Put(b, host, BackoffRecord(b[host].until,
                                                  b[host].attempts + 1,
                                                  b[host].status))]

\* Variant: a record whose window ends exactly now is not yet expired.
active_backoff_strict(b, host, t) ==
    IF ~Has(b, host) THEN [wait |-> None, backoffs |-> b]
    ELSE IF b[host].until < t THEN [wait |-> None, backoffs |-> Pop(b, host)]
    ELSE [wait |-> Some(total_seconds_int(b[host].until - t)), backoffs |-> b]

\* _active_backoff: the Optional[int] returned and the dict afterwards.
active_backoff(b, host, t) ==
    IF ~Has(b, host) THEN [wait |-> None, backoffs |-> b]
    ELSE IF b[host].until <= t THEN [wait |-> None, backoffs |-> Pop(b, host)]
    ELSE [wait |-> Some(total_seconds_int(b[host].until - t)), backoffs |-> b]

\* Variant: the prior record is not read (a lost update).
backoff_attempts_lost(b, host, status_code) == 1

\* Variant: a short status after a long-backoff record starts a new count.
backoff_attempts_restarting(b, host, status_code) ==
    IF status_code \in long_backoff_statuses THEN 1
    ELSE (IF Has(b, host) /\ b[host].status \notin long_backoff_statuses
          THEN b[host].attempts ELSE 0) + 1

\* Variant: a long-backoff status increments like a short one.
backoff_attempts_incrementing(b, host, status_code) ==
    (IF Has(b, host) THEN b[host].attempts ELSE 0) + 1

backoff_attempts(b, host, status_code) ==
    IF status_code \in long_backoff_statuses THEN 1
    ELSE (IF Has(b, host) THEN b[host].attempts ELSE 0) + 1

\* Variant: the delay grows by the base at each attempt instead of doubling.
short_delay_linear(attempts, cfg) ==
    Min(cfg.backoff_base_seconds * attempts, cfg.backoff_max_seconds)

short_delay(attempts, cfg) ==
    Min(cfg.backoff_base_seconds * (2 ^ (attempts - 1)), cfg.backoff_max_seconds)

backoff_delay(attempts, status_code, cfg) ==
    IF status_code \in long_backoff_statuses THEN cfg.long_backoff_seconds
    ELSE short_delay(attempts, cfg)

\* delay = max(delay, retry_after) when retry_after is not None
extend_delay(delay, retry_after) ==
    IF retry_after = None THEN delay ELSE Max(delay, retry_after[1].n)

\* _register_backoff: the exception raised ("" for none), the delay
\* returned and the dict afterwards.  now + timedelta(seconds=delay) raises
\* OverflowError when the delay does not fit a datetime.
register_backoff(b, host, status_code, retry_after_header, t, cfg) ==
    LET ra       == parse_retry_after(retry_after_header)
        attempts == backoff_attempts(b, host, status_code)
        delay    == extend_delay(backoff_delay(attempts, status_code, cfg), ra.val)
        until    == t + timedelta(delay)
    IN  IF ra.exc # "" THEN [exc |-> ra.exc, delay |-> 0, backoffs |-> b]
        ELSE IF ra.val # None /\ ra.val[1].huge
        THEN [exc |-> "OverflowError", delay |-> 0, backoffs |-> b]
        ELSE [exc |-> "", delay |-> delay,
              backoffs |-> Put(b, host, BackoffRecord(until, attempts, status_code))]

\* Variant: the record is left in place.
clear_backoff_keeping(b, host) == b

clear_backoff(b, host) == Pop(b, host)

---------------------------------------------------------------------------
(* State and clock *)

Hosts == {"x", "y"}

\* The host the requests and the direct ledger calls are made for.
LedgerHosts == {"x"}

\* The statuses _register_backoff is called with: 429, the synthetic 503 of
\* a connection failure, and the long-backoff statuses.
FailureStatuses == {429, ConnectionFailedStatus} \cup long_backoff_statuses

\* Retry-After texts drawn by the model (None: no header).
RetryAfterHeaders ==
    {None} \cup {Some(s) : s \in {"", "0", "45", "120", "120.5", "1000", "-5",
                                  "1e12", "nan", "inf",
                                  "Wed, 21 Oct 2015 07:28:00 GMT"}}

Idle == [pc |-> "idle", target |-> "", host_key |-> ""]

NoStep ==
    [op |-> "init", host |-> "", url |-> None, prior |-> None,
     wait |-> None, fetch |-> FALSE, status |-> 0, headers |-> <<>>,
     code |-> 0, header |-> None, upstream |-> None, exc |-> "", delay |-> 0]

\* The server once constructed and started: an empty ledger, no request in
\* flight.  Requests are served between startup and shutdown, so self.client
\* is set whenever proxy_raw runs.
Init ==
    /\ now = 0
    /\ config = DefaultConfig
    /\ backoffs = <<>>
    /\ inflight = [r \in 1..MaxRequests |-> Idle]
    /\ last = NoStep
    /\ streak = [h \in Hosts |-> 0]
    /\ outcomes = [h \in Hosts |-> 0]
    /\ held = [h \in Hosts |-> 0]
    /\ via = [h \in Hosts |-> ""]

\* The instants the clock is moved to, relative to the end of a backoff
\* window: more than a second before it, inside its last second, at it,
\* after it.
ClockOffsets ==
    {0 - TicksPerSecond - 1, 0 - 1, 0, 1}

\* _now(): time passes between any two steps, up to the bound given.
AdvanceTo(limit) ==
    \E h \in DOMAIN backoffs, d \in ClockOffsets :
        /\ backoffs[h].until + d > now
        /\ backoffs[h].until + d <= limit * TicksPerSecond
        /\ now' = backoffs[h].until + d
        /\ last' = [NoStep EXCEPT !.op = "advance"]
        /\ UNCHANGED <<config, backoffs, inflight, streak, outcomes, held, via>>

\* History of the ledger: the instant t + long_backoff_seconds of the latest
\* registration of a long-backoff status for a host at t (0: none yet).
held_after(e, exc, status_code, t, cfg) ==
    IF exc = "" /\ status_code \in long_backoff_statuses
    THEN Max(e, t + timedelta(cfg.long_backoff_seconds))
    ELSE e

\* History of the ledger: the target of the request whose outcome stored
\* the host's record ("": no record, or one stored by a direct call).
via_after(u, b2, host, exc, code, target) ==
    IF ~Has(b2, host) THEN ""
    ELSE IF exc = "" /\ code # 0 THEN target
    ELSE u

\* History of the ledger: the short registrations made for a host since it
\* last had no record; -1 once a long registration is among them.
streak_after(s, b2, host, status_code) ==
    IF ~Has(b2, host) THEN 0
    ELSE IF status_code \in long_backoff_statuses \/ s < 0 THEN 0 - 1
    ELSE s + 1

---------------------------------------------------------------------------
(* The ledger operations called directly, with any arguments *)

Call_active_backoff(host) ==
    LET r == active_backoff(backoffs, host, now) IN
    /\ backoffs' = r.backoffs
    /\ streak' = [streak EXCEPT ![host] = IF Has(r.backoffs, host) THEN @ ELSE 0]
    /\ last' = [NoStep EXCEPT !.op = "active_backoff", !.host = host,
                              !.prior = Get(backoffs, host),
                              !.wait = r.wait]
    /\ UNCHANGED <<now, config, inflight, outcomes, held, via>>

Call_register_backoff(host, status_code, retry_after_header) ==
    LET r == register_backoff(backoffs, host, status_code, retry_after_header,
                              now, config) IN
    /\ backoff_attempts(backoffs, host, status_code) <= MaxAttempts
    /\ backoffs' = r.backoffs
    /\ streak' = [streak EXCEPT ![host] =
                     IF r.exc # "" THEN @
                     ELSE streak_after(@, r.backoffs, host, status_code)]
    /\ last' = [NoStep EXCEPT !.op = "register_backoff", !.host = host,
                              !.prior = Get(backoffs, host),
                              !.code = status_code,
                              !.header = retry_after_header,
                              !.exc = r.exc, !.delay = r.delay]
    /\ held' = [held EXCEPT ![host] = held_after(@, r.exc, status_code, now, config)]
    /\ UNCHANGED <<now, config, inflight, outcomes, via>>

Call_clear_backoff(host) ==
    /\ backoffs' = clear_backoff(backoffs, host)
    /\ streak' = [streak EXCEPT ![host] = 0]
    /\ last' = [NoStep EXCEPT !.op = "clear_backoff", !.host = host,
                              !.prior = Get(backoffs, host)]
    /\ UNCHANGED <<now, config, inflight, outcomes, held, via>>

LedgerNext ==
    \/ AdvanceTo(MaxTime)
    \/ \E h \in LedgerHosts : Call_active_backoff(h)
    \/ \E h \in LedgerHosts, c \in FailureStatuses, ra \in RetryAfterHeaders :
           Call_register_backoff(h, c, ra)
    \/ \E h \in Hosts : Call_clear_backoff(h)

LedgerSpec == Init /\ [][LedgerNext]_vars

\* build_arg_parser: --backoff-base, --backoff-max and --long-backoff are
\* type=int with no range check, so main() hands zero and negative values
\* to CorsProxyServer as well.
Configs ==
    { DefaultConfig,
      [DefaultConfig EXCEPT !.backoff_base_seconds = 0],
      [DefaultConfig EXCEPT !.backoff_max_seconds = 0 - 1],
      [DefaultConfig EXCEPT !.long_backoff_seconds = 0] }

\* The server constructed by main() from any accepted command line.
ConfigInit ==
    /\ now = 0
    /\ config \in Configs
    /\ backoffs = <<>>
    /\ inflight = [r \in 1..MaxRequests |-> Idle]
    /\ last = NoStep
    /\ streak = [h \in Hosts |-> 0]
    /\ outcomes = [h \in Hosts |-> 0]
    /\ held = [h \in Hosts |-> 0]
    /\ via = [h \in Hosts |-> ""]

\* Retry-After texts drawn under the configurations: absent, zero,
\* negative, below and above the default delays, and not a number.
ConfigRetryAfterHeaders ==
    {None} \cup {Some(s) : s \in {"0", "-5", "45", "1000", "nan"}}

\* The ledger calls in the first MaxConfigTime seconds after startup.
ConfigNext ==
    \/ AdvanceTo(MaxConfigTime)
    \/ \E h \in LedgerHosts : Call_active_backoff(h)
    \/ \E h \in LedgerHosts, c \in FailureStatuses, ra \in ConfigRetryAfterHeaders :
           Call_register_backoff(h, c, ra)
    \/ \E h \in LedgerHosts : Call_clear_backoff(h)

ConfigSpec == ConfigInit /\ [][ConfigNext]_vars

---------------------------------------------------------------------------
(* httpx.URL on the url values the model draws.  exc is the exception the  *)
(* constructor raises ("" for none); scheme and host are normalised to     *)
(* lower case and the port is not part of host.                            *)

ParsedURL(scheme, host, text) ==
    [exc |-> "", scheme |-> scheme, host |-> host, str |-> text]

URL(raw_url) ==
    CASE raw_url = "http://x/feed"              -> ParsedURL("http", "x", "http://x/feed")
      [] raw_url = "HTTP://X/feed"              -> ParsedURL("http", "x", "http://x/feed")
      [] raw_url = "https://x:8443/feed?page=2" -> ParsedURL("https", "x", "https://x:8443/feed?page=2")
      [] raw_url = "http://y/feed"              -> ParsedURL("http", "y", "http://y/feed")
      [] raw_url = "ftp://x/file"               -> ParsedURL("ftp", "x", "ftp://x/file")
      [] raw_url = "http:///feed"               -> ParsedURL("http", "", "http:///feed")
      [] raw_url = "/feed"                      -> ParsedURL("", "", "/feed")
      [] raw_url = "http://x:port/feed"         -> [ParsedURL("", "", "") EXCEPT !.exc = "InvalidURL"]
      [] OTHER                                  -> ParsedURL("", "", raw_url)

\* The url query parameter of a request: None when the parameter is missing.
UrlParameters ==
    {None} \cup {Some(u) : u \in {"", "http://x/feed", "HTTP://X/feed",
                                  "https://x:8443/feed?page=2",
                                  "ftp://x/file", "http:///feed", "/feed",
                                  "http://x:port/feed"}}

\* _parse_target: the HTTP status of the error raised (0 for none; 500 is
\* an exception that is no HTTPException) and the target returned.
parse_target(raw_url) ==
    IF raw_url = "" THEN [status |-> 400, target |-> ""]
    ELSE LET target == URL(raw_url) IN
         IF target.exc # "" THEN [status |-> 500, target |-> ""]
         ELSE IF target.scheme \notin {"http", "https"} \/ target.host = ""
         THEN [status |-> 400, target |-> ""]
         ELSE [status |-> 0, target |-> target.str]

\* _host_key: the status of the error raised (0 for none) and the key.
host_key(target) ==
    LET parsed == URL(target) IN
    IF parsed.exc # "" THEN [status |-> 500, key |-> ""]
    ELSE IF parsed.host = "" THEN [status |-> 400, key |-> ""]
    ELSE [status |-> 0, key |-> parsed.host]

\* Lines 256-260: the required query parameter (a missing one is answered
\* 422 by the framework before the handler runs), then _parse_target and
\* _host_key.
validate(url) ==
    IF url = None THEN [status |-> 422, target |-> "", key |-> ""]
    ELSE LET t == parse_target(url[1]) IN
         IF t.status # 0 THEN [status |-> t.status, target |-> "", key |-> ""]
         ELSE LET k == host_key(t.target) IN
              IF k.status # 0 THEN [status |-> k.status, target |-> "", key |-> ""]
              ELSE [status |-> 0, target |-> t.target, key |-> k.key]

---------------------------------------------------------------------------
(* Headers.  A header list is a sequence of <<name, value>>; a dict is a   *)
(* sequence of <<key, value>> with distinct keys, in insertion order.      *)

HOP_BY_HOP_HEADERS ==
    {"connection", "keep-alive", "proxy-authenticate", "proxy-authorization",
     "te", "trailer", "transfer-encoding", "upgrade"}

\* str.lower() on the header names the model draws.
lower(name) ==
    CASE name = "Retry-After"       -> "retry-after"
      [] name = "Content-Type"      -> "content-type"
      [] name = "Content-Length"    -> "content-length"
      [] name = "Content-Encoding"  -> "content-encoding"
      [] name = "Connection"        -> "connection"
      [] name = "Keep-Alive"        -> "keep-alive"
      [] name = "Transfer-Encoding" -> "transfer-encoding"
      [] name = "TE"                -> "te"
      [] name = "Upgrade"           -> "upgrade"
      [] name = "ETag"              -> "etag"
      [] OTHER                      -> name

dict_has(d, k) == \E i \in DOMAIN d : d[i][1] = k
dict_get(d, k) ==
    IF dict_has(d, k) THEN Some(d[CHOOSE i \in DOMAIN d : d[i][1] = k][2]) ELSE None
dict_pop(d, k) == SelectSeq(d, LAMBDA kv : kv[1] # k)
dict_set(d, k, v) ==
    IF dict_has(d, k) THEN [i \in DOMAIN d |-> IF d[i][1] = k THEN <<k, v>> ELSE d[i]]
    ELSE Append(d, <<k, v>>)

\* httpx.Headers.items(): the keys are the lower-cased names, and the
\* values of a repeated name are joined with ", ".
items_add(d, k, v) ==
    IF dict_has(d, k) THEN dict_set(d, k, dict_get(d, k)[1] \o ", " \o v)
    ELSE Append(d, <<k, v>>)

RECURSIVE items_from(_, _)
items_from(raw, d) ==
    IF raw = <<>> THEN d
    ELSE items_from(Tail(raw), items_add(d, lower(Head(raw)[1]), Head(raw)[2]))

items(upstream_headers) == items_from(upstream_headers, <<>>)

\* Variant: content-length and content-encoding are not removed.
sanitize_hop_only(upstream_headers) ==
    SelectSeq(items(upstream_headers),
              LAMBDA kv : lower(kv[1]) \notin HOP_BY_HOP_HEADERS)

\* Lines 296-302: the dict built from the upstream headers.
sanitize(upstream_headers) ==
    dict_pop(dict_pop(
        SelectSeq(items(upstream_headers),
                  LAMBDA kv : lower(kv[1]) \notin HOP_BY_HOP_HEADERS),
        "content-length"), "content-encoding")

\* str(int)
str(n) == ToString(n)

\* The values a client reads for a header: names compare without case.
header_values(headers, name) ==
    SelectSeq(headers, LAMBDA kv : lower(kv[1]) = lower(name))

---------------------------------------------------------------------------
(* The /raw handler *)

Requests == 1..MaxRequests

\* What client.get yields: RequestError, or a response.
RequestError == [error |-> TRUE, status_code |-> 0, headers |-> <<>>]
UpstreamResponse(status_code, headers) ==
    [error |-> FALSE, status_code |-> status_code, headers |-> headers]

\* The upstream responses the model draws.
Upstreams ==
    { RequestError,
      UpstreamResponse(200, << <<"Content-Type", "application/rss+xml">>,
                               <<"Content-Length", "512">>, <<"ETag", "v1">> >>),
      UpstreamResponse(200, << <<"Transfer-Encoding", "chunked">>,
                               <<"Content-Encoding", "gzip">>,
                               <<"Keep-Alive", "timeout=5">>,
                               <<"ETag", "v1">>, <<"etag", "v2">> >>),
      UpstreamResponse(503, << <<"Retry-After", "120">> >>),
      UpstreamResponse(429, <<>>),
      UpstreamResponse(429, << <<"Retry-After", "120">>,
                               <<"Connection", "close">> >>),
      UpstreamResponse(429, << <<"retry-after", "1000">> >>),
      UpstreamResponse(403, <<>>),
      UpstreamResponse(404, << <<"Retry-After", "120.5">>,
                               <<"Content-Type", "text/html">> >>),
      UpstreamResponse(500, << <<"Retry-After", "inf">> >>) }

\* History of a host's outcomes: the short-backoff outcomes (upstream 429,
\* connection failure) since its last successful response; -1 once a
\* long-backoff status is among them.
outcomes_after(n, upstream) ==
    IF upstream.error \/ upstream.status_code = 429
    THEN (IF n < 0 THEN 0 - 1 ELSE n + 1)
    ELSE IF upstream.status_code \in long_backoff_statuses THEN 0 - 1
    ELSE 0

\* Lines 256-277: validation, the backoff check, and the request sent
\* upstream (the coroutine then waits in client.get).  The slots are
\* interchangeable: a new request takes the first free one.
proxy_raw(r, url) ==
    /\ inflight[r].pc = "idle"
    /\ \A q \in Requests : q < r => inflight[q].pc # "idle"
    /\ LET v   == validate(url)
           chk == active_backoff(backoffs, v.key, now)
           step == [NoStep EXCEPT !.op = "proxy_raw", !.url = url]
           seen == [step EXCEPT !.host = v.key, !.prior = Get(backoffs, v.key),
                                !.wait = chk.wait]
       IN  IF v.status # 0
           THEN /\ last' = [step EXCEPT !.status = v.status]
                /\ UNCHANGED <<backoffs, inflight, streak, via>>
           ELSE /\ backoffs' = chk.backoffs
                /\ streak' = [streak EXCEPT ![v.key] =
                                 IF Has(chk.backoffs, v.key) THEN @ ELSE 0]
                /\ via' = [via EXCEPT ![v.key] =
                              IF Has(chk.backoffs, v.key) THEN @ ELSE ""]
                /\ IF Truthy(chk.wait)
                   THEN /\ last' = [seen EXCEPT !.status = 429,
                                        !.headers = << <<"Retry-After", str(chk.wait[1])>> >>]
                        /\ UNCHANGED inflight
                   ELSE /\ last' = [seen EXCEPT !.fetch = TRUE]
                        /\ inflight' = [inflight EXCEPT ![r] =
                               [pc |-> "fetching", target |-> v.target,
                                host_key |-> v.key]]
    /\ UNCHANGED <<now, config, outcomes, held>>

\* Lines 288-294: client.get raised RequestError.
connection_failed(b, host, t, cfg) ==
    LET reg == register_backoff(b, host, ConnectionFailedStatus, None, t, cfg) IN
    [backoffs |-> reg.backoffs, status |-> 502,
     headers |-> << <<"Retry-After", str(reg.delay)>> >>,
     code |-> ConnectionFailedStatus, header |-> None,
     exc |-> reg.exc, delay |-> reg.delay]

\* Lines 295-315: client.get returned a response.  The result carries the
\* status and the headers dict handed to Response; body and media type are
\* passed through and not modelled.
forward_response(b, host, upstream, t, cfg) ==
    LET status  == upstream.status_code
        headers == sanitize(upstream.headers)
        header  == dict_get(headers, "Retry-After")
        reg     == register_backoff(b, host, status, header, t, cfg)
    IN  IF status = 429 \/ status \in long_backoff_statuses
        THEN IF reg.exc # ""
             THEN [backoffs |-> b, status |-> 500, headers |-> <<>>,
                   code |-> status, header |-> header,
                   exc |-> reg.exc, delay |-> 0]
             ELSE [backoffs |-> reg.backoffs, status |-> status,
                   headers |-> dict_set(headers, "Retry-After", str(reg.delay)),
                   code |-> status, header |-> header,
                   exc |-> "", delay |-> reg.delay]
        ELSE [backoffs |-> clear_backoff(b, host), status |-> status,
              headers |-> headers, code |-> 0, header |-> None,
              exc |-> "", delay |-> 0]

\* Lines 278-315: the coroutine resumes with what client.get yielded.
proxy_raw_resume(r, upstream) ==
    /\ inflight[r].pc = "fetching"
    /\ LET host == inflight[r].host_key
           res  == IF upstream.error
                   THEN connection_failed(backoffs, host, now, config)
                   ELSE forward_response(backoffs, host, upstream, now, config)
       IN  /\ backoffs' = res.backoffs
           /\ streak' = [streak EXCEPT ![host] =
                            IF res.code = 0 THEN 0
                            ELSE IF res.exc # "" THEN @
                            ELSE streak_after(@, res.backoffs, host, res.code)]
           /\ outcomes' = [outcomes EXCEPT ![host] = outcomes_after(@, upstream)]
           /\ held' = [held EXCEPT ![host] =
                          held_after(@, res.exc, res.code, now, config)]
           /\ via' = [via EXCEPT ![host] =
                         via_after(@, res.backoffs, host, res.exc, res.code,
                                   inflight[r].target)]
           /\ last' = [NoStep EXCEPT !.op = "proxy_raw_resume",
                                     !.host = host, !.upstream = upstream,
                                     !.prior = Get(backoffs, host),
                                     !.status = res.status, !.headers = res.headers,
                                     !.code = res.code, !.header = res.header,
                                     !.exc = res.exc, !.delay = res.delay]
    /\ inflight' = [inflight EXCEPT ![r] = Idle]
    /\ UNCHANGED <<now, config>>

Next ==
    \/ AdvanceTo(MaxTime)
    \/ \E r \in Requests, url \in UrlParameters : proxy_raw(r, url)
    \/ \E r \in Requests, upstream \in Upstreams : proxy_raw_resume(r, upstream)

Spec == Init /\ [][Next]_vars

---------------------------------------------------------------------------
(* Claims *)

\* The step just taken called _active_backoff for a host that had a record
\* whose window was still open.
CheckedOpenWindow ==
    /\ last.op \in {"proxy_raw", "active_backoff"}
    /\ last.prior # None
    /\ last.prior[1].until > now

\* ceil(a / b) for a >= 0, b > 0
Ceil(a, b) == (a + b - 1) \div b

\* C1: a /raw request for a host whose record has resumeAt > now (also when
\* less than a second of the window remains) is answered 429 with a
\* Retry-After header, and no upstream request is issued for it.
C1_ThrottleGate ==
    (last.op = "proxy_raw" /\ CheckedOpenWindow)
        => /\ last.status = 429
           /\ Len(header_values(last.headers, "Retry-After")) = 1
           /\ ~last.fetch

\* C9: for a host with a record whose resumeAt is later than now,
\* checkActive returns ceil(resumeAt - now) whole seconds, which is >= 1;
\* for a host with no record it returns none.
C9_CheckActiveResult ==
    (last.op \in {"proxy_raw", "active_backoff"} /\ last.host # "")
        => /\ CheckedOpenWindow
                => /\ last.wait = Some(Ceil(last.prior[1].until - now, TicksPerSecond))
                   /\ last.wait[1] >= 1
           /\ last.prior = None => last.wait = None

\* A Retry-After value that is a non-negative number of seconds.
NonNegativeSeconds(header) ==
    /\ header # None
    /\ header[1] # ""
    /\ float(header[1]).kind = "finite"
    /\ ~float(header[1]).neg

\* The ledger as it was before the step just taken, for the step's host.
PriorLedger ==
    IF last.prior = None THEN <<>> ELSE [h \in {last.host} |-> last.prior[1]]

PriorAttempts == IF last.prior = None THEN 0 ELSE last.prior[1].attempts

\* The attempts of the record stored for a host (0: no record).
PriorAttemptsOf(h) == IF Has(backoffs, h) THEN backoffs[h].attempts ELSE 0

ThrottlingStatus(status) == status = 429 \/ status \in long_backoff_statuses

\* The step just taken resumed a request with an upstream response.
Responded == last.op = "proxy_raw_resume" /\ ~last.upstream.error

\* The step just taken resumed a request with a short-backoff outcome.
ShortOutcome ==
    /\ last.op = "proxy_raw_resume"
    /\ last.upstream.error \/ last.upstream.status_code = 429

\* The response of the step just taken carries Retry-After once, with value v.
CarriesRetryAfter(v) ==
    LET hv == header_values(last.headers, "Retry-After") IN
    Len(hv) = 1 /\ hv[1][2] = v

\* C2: after N consecutive registerFailure calls with a short-backoff
\* status and no Retry-After header, counted from a state with no record for
\* the host, the Nth call returns min(backoffBase * 2^(N-1), backoffMax);
\* with base 30 and max 900 the first three delays are 30, 60, 120.
C2_ExponentialSchedule ==
    (/\ last.op = "register_backoff"
     /\ last.code \notin long_backoff_statuses
     /\ last.header = None
     /\ streak[last.host] >= 1)
        => LET N == streak[last.host] IN
           /\ last.delay = Min(config.backoff_base_seconds * 2 ^ (N - 1),
                               config.backoff_max_seconds)
           /\ (config = DefaultConfig /\ N <= 3) => last.delay = <<30, 60, 120>>[N]

\* C2 witness: a seventh consecutive 429 registration, at the ceiling.
C2_Witness ==
    /\ last.op = "register_backoff"
    /\ last.code = 429
    /\ last.header = None
    /\ streak[last.host] = 7
    /\ last.delay = 900

\* C3: over /raw requests to one host whose upstream outcomes are all
\* short-backoff outcomes with no success in between, the attemptCount
\* stored after the Nth outcome is N and its delay is
\* min(base * 2^(N-1), max), also when each request is sent after the
\* previous window has expired.
C3_AttemptAccounting ==
    (ShortOutcome /\ outcomes[last.host] >= 1)
        => LET N == outcomes[last.host] IN
           /\ Has(backoffs, last.host)
           /\ backoffs[last.host].attempts = N
           /\ last.delay = Min(config.backoff_base_seconds * 2 ^ (N - 1),
                               config.backoff_max_seconds)

\* C4: if retryAfterHeader is a non-negative number of seconds R,
\* registerFailure returns a delay >= R and >= the delay it computes without
\* the header, and the stored resumeAt is now + that delay.
C4_RetryAfterFloor ==
    (last.op = "register_backoff" /\ NonNegativeSeconds(last.header))
        => LET R == float(last.header[1])
               plain == register_backoff(PriorLedger, last.host, last.code,
                                         None, now, config)
           IN  /\ last.exc = ""
               /\ ~R.huge
               /\ 10 * last.delay >= 10 * R.whole + R.tenths
               /\ last.delay >= plain.delay
               /\ Has(backoffs, last.host)
               /\ backoffs[last.host].until = now + last.delay * TicksPerSecond

\* C5: when upstream answers 429 or a long-backoff status with a Retry-After
\* header of R seconds, R is passed to registerFailure (the registered delay
\* is >= R) and the response to the client carries exactly one Retry-After
\* header, whose value is the delay registerFailure returned.
C5_ForwardThrottling ==
    (/\ Responded
     /\ ThrottlingStatus(last.upstream.status_code)
     /\ Len(header_values(last.upstream.headers, "Retry-After")) = 1
     /\ NonNegativeSeconds(Some(header_values(last.upstream.headers, "Retry-After")[1][2])))
        => LET sent == header_values(last.upstream.headers, "Retry-After")[1][2]
               R    == float(sent)
           IN  /\ last.header = Some(sent)
               /\ 10 * last.delay >= 10 * R.whole + R.tenths
               /\ CarriesRetryAfter(str(last.delay))

\* C6: a network-level failure of the upstream fetch registers one failure
\* with status 503, a short-backoff status, and is answered 502 with
\* Retry-After equal to the returned delay; a further /raw request to the
\* host while that record's window is open is answered 429 without an
\* upstream call.
C6_ConnectionFailure ==
    /\ (last.op = "proxy_raw_resume" /\ last.upstream.error)
           => /\ last.code = 503
              /\ last.code \notin long_backoff_statuses
              /\ Has(backoffs, last.host)
              /\ backoffs[last.host].status = 503
              /\ backoffs[last.host].attempts = PriorAttempts + 1
              /\ backoffs[last.host].until = now + last.delay * TicksPerSecond
              /\ last.status = 502
              /\ CarriesRetryAfter(str(last.delay))
    /\ (last.op = "proxy_raw" /\ CheckedOpenWindow /\ last.prior[1].status = 503)
           => /\ last.status = 429
              /\ ~last.fetch

\* C7: when a forwarded request receives an upstream response whose status
\* is neither 429 nor a long-backoff status, the ledger holds no record for
\* the host once the request has been handled, whatever record existed
\* before; the first failure after it is stored with attemptCount 1.
C7_SuccessClears ==
    /\ (Responded /\ ~ThrottlingStatus(last.upstream.status_code))
           => ~Has(backoffs, last.host)
    /\ (ShortOutcome /\ outcomes[last.host] = 1)
           => /\ Has(backoffs, last.host)
              /\ backoffs[last.host].attempts = 1

\* C7 witness: a successful response handled while the host had a record.
C7_Witness ==
    /\ Responded
    /\ last.upstream.status_code = 200
    /\ last.prior # None
    /\ ~Has(backoffs, last.host)

\* The url parameter is missing, empty, no URL, not http(s), or has no host.
InvalidUrl(url) ==
    \/ url = None
    \/ url[1] = ""
    \/ URL(url[1]).exc # ""
    \/ URL(url[1]).scheme \notin {"http", "https"}
    \/ URL(url[1]).host = ""

\* C8: a GET /raw request whose url parameter is missing, empty, no URL, not
\* http(s) or without host is answered 400, issues no upstream request and
\* leaves the ledger unchanged.
C8_RequestValidation ==
    [][\A r \in Requests, url \in UrlParameters :
          (proxy_raw(r, url) /\ InvalidUrl(url))
              => /\ last'.status = 400
                 /\ ~last'.fetch
                 /\ UNCHANGED <<backoffs, inflight>>]_vars

\* C10: registerFailure with a status in {403, 404, 500} and no Retry-After
\* header, whatever the prior record, stores attemptCount 1, that status and
\* resumeAt = now + longBackoffSeconds, and returns longBackoffSeconds.
C10_LongBackoffRegistration ==
    (/\ last.op = "register_backoff"
     /\ last.code \in {403, 404, 500}
     /\ last.header = None)
        => /\ last.exc = ""
           /\ Has(backoffs, last.host)
           /\ backoffs[last.host] =
                  [until |-> now + config.long_backoff_seconds * TicksPerSecond,
                   attempts |-> 1, status |-> last.code]
           /\ last.delay = config.long_backoff_seconds

\* C10 witness: a 404 registered over a record of three attempts or more.
C10_Witness ==
    /\ last.op = "register_backoff"
    /\ last.code = 404
    /\ last.header = None
    /\ last.prior # None
    /\ last.prior[1].attempts >= 3
    /\ backoffs[last.host].attempts = 1

\* C11: registerFailure is total: for every host, status code and
\* retryAfterHeader value (absent, empty, a number, an HTTP-date, other
\* text, negative, 'nan', 'inf') the call raises nothing, writes a record and
\* returns a delay; a header that is not a non-negative number of seconds
\* has the effect of an absent header.
C11_RegisterTotal ==
    (last.op = "register_backoff")
        => /\ last.exc = ""
           /\ Has(backoffs, last.host)
           /\ ~NonNegativeSeconds(last.header)
                  => LET plain == register_backoff(PriorLedger, last.host, last.code,
                                                   None, now, config)
                     IN  /\ last.delay = plain.delay
                         /\ backoffs[last.host] = plain.backoffs[last.host]

\* C12: once a long-backoff status from host H has been registered at time
\* t, no upstream request to H is initiated before t + longBackoffSeconds,
\* whatever requests to H were in flight at t and however they complete.
C12_LongBackoffHolds ==
    (last.op = "proxy_raw" /\ last.fetch) => held[last.host] <= now

\* C13: for every host H and every ledger state, after clear(H) the ledger
\* has no record for H and checkActive(H) returns none; clear(H) on a ledger
\* with no record for H leaves the ledger unchanged, so clear(H) after
\* clear(H) changes nothing.
C13_ClearIdempotent ==
    [][\A h \in Hosts :
          Call_clear_backoff(h)
              => /\ ~Has(backoffs', h)
                 /\ active_backoff(backoffs', h, now').wait = None
                 /\ ~Has(backoffs, h) => backoffs' = backoffs
                 /\ clear_backoff(backoffs', h) = backoffs']_vars

\* C13 witness: clear called for a host whose record's window was open.
C13_Witness ==
    /\ last.op = "clear_backoff"
    /\ last.prior # None
    /\ last.prior[1].until > now
    /\ ~Has(backoffs, last.host)

\* The header names the forwarder is to strip.
StrippedNames == HOP_BY_HOP_HEADERS \cup {"content-length", "content-encoding"}

\* An upstream header the forwarder is to keep: not stripped, and not the
\* Retry-After of a throttling response.
Kept(name) ==
    /\ lower(name) \notin StrippedNames
    /\ ~(lower(name) = "retry-after" /\ ThrottlingStatus(last.upstream.status_code))

\* The values of a non-empty header list, joined with ", ".
RECURSIVE joined(_)
joined(hv) ==
    IF Len(hv) = 1 THEN hv[1][2] ELSE hv[1][2] \o ", " \o joined(Tail(hv))

\* C14 as stated: for every upstream response, the headers returned contain
\* no header named (case-insensitively) connection, keep-alive,
\* proxy-authenticate, proxy-authorization, te, trailer, transfer-encoding,
\* upgrade, content-length or content-encoding, and every other upstream
\* header is kept with its value unchanged (apart from Retry-After on a
\* throttling status).
C14_HeaderSanitization ==
    Responded
        => /\ \A j \in DOMAIN last.headers :
                  lower(last.headers[j][1]) \notin StrippedNames
           /\ \A i \in DOMAIN last.upstream.headers :
                  Kept(last.upstream.headers[i][1])
                      => \E j \in DOMAIN last.headers :
                             /\ lower(last.headers[j][1]) = lower(last.upstream.headers[i][1])
                             /\ last.headers[j][2] = last.upstream.headers[i][2]

\* C14 as amended: no stripped name is returned, and every other upstream
\* header name is returned exactly once, with its upstream value when it
\* occurs once and with the values of its occurrences joined by ", " in
\* upstream order when it is repeated (apart from Retry-After on a
\* throttling status).
C14_HeaderSanitizationFolded ==
    Responded
        => /\ \A j \in DOMAIN last.headers :
                  lower(last.headers[j][1]) \notin StrippedNames
           /\ \A i \in DOMAIN last.upstream.headers :
                  LET name == last.upstream.headers[i][1]
                      out  == header_values(last.headers, name)
                  IN  Kept(name)
                          => /\ Len(out) = 1
                             /\ out[1][2] = joined(header_values(last.upstream.headers, name))

\* C14 witness: a response with hop-by-hop headers, a content-encoding and a
\* repeated ETag has been forwarded.
C14_Witness ==
    /\ Responded
    /\ Len(header_values(last.upstream.headers, "Transfer-Encoding")) = 1
    /\ Len(header_values(last.upstream.headers, "Content-Encoding")) = 1
    /\ Len(header_values(last.upstream.headers, "ETag")) = 2
    /\ last.headers = << <<"etag", "v1, v2">> >>

\* The step just taken registered status_code with no Retry-After header
\* under the default configuration (base 30, max 900, long 86400).
RegisteredPlain(status_code) ==
    /\ last.op = "register_backoff"
    /\ config = DefaultConfig
    /\ last.code = status_code
    /\ last.header = None

\* C15 (Scenario B): with base 30, max 900, long 86400 and an empty ledger,
\* registerFailure(y, 404, none) returns 86400 and stores attemptCount 1,
\* and an immediately following registerFailure(y, 429, none) stores
\* attemptCount 2 and returns min(30 * 2^1, 900) = 60.
C15_LongThenShort ==
    /\ (RegisteredPlain(404) /\ last.prior = None)
           => /\ last.exc = ""
              /\ last.delay = 86400
              /\ Has(backoffs, last.host)
              /\ backoffs[last.host].attempts = 1
    /\ (RegisteredPlain(429)
            /\ last.prior = Some(BackoffRecord(now + timedelta(86400), 1, 404)))
           => /\ last.exc = ""
              /\ last.delay = 60
              /\ Has(backoffs, last.host)
              /\ backoffs[last.host].attempts = 2

\* C15 witness: a 429 registered right after a 404 on an empty ledger.
C15_Witness ==
    /\ RegisteredPlain(429)
    /\ last.prior = Some(BackoffRecord(now + timedelta(86400), 1, 404))
    /\ backoffs[last.host] = BackoffRecord(now + timedelta(60), 2, 429)

\* C16: for every host whose record has resumeAt at or before now,
\* checkActive deletes the record and returns none, so that the request
\* which queried it proceeds to the upstream fetch; a record is removed only
\* by this lazy expiry or by clear (a non-throttling upstream response),
\* never by the passing of time alone.
C16_LazyExpiry ==
    [][/\ \A r \in Requests, url \in UrlParameters :
              LET v == validate(url) IN
              (/\ proxy_raw(r, url)
               /\ v.status = 0
               /\ Has(backoffs, v.key)
               /\ backoffs[v.key].until <= now)
                  => /\ ~Has(backoffs', v.key)
                     /\ last'.wait = None
                     /\ last'.fetch
                     /\ inflight'[r].pc = "fetching"
       /\ \A h \in Hosts :
              (Has(backoffs, h) /\ ~Has(backoffs', h))
                  => \/ /\ last'.op = "proxy_raw"
                        /\ last'.host = h
                        /\ backoffs[h].until <= now
                     \/ /\ last'.op = "proxy_raw_resume"
                        /\ last'.host = h
                        /\ ~last'.upstream.error
                        /\ ~ThrottlingStatus(last'.upstream.status_code)]_vars

\* C16 witness: a request found a record whose window had ended and was
\* sent upstream.
C16_Witness ==
    /\ last.op = "proxy_raw"
    /\ last.prior # None
    /\ last.prior[1].until < now
    /\ last.fetch
    /\ ~Has(backoffs, last.host)

\* C17: every record written by registerFailure, for every status code,
\* prior state, Retry-After value and every backoff configuration accepted
\* at startup, has attemptCount >= 1 and resumeAt strictly later than the
\* time of the call.
C17_RecordInvariant ==
    (last.op = "register_backoff" /\ last.exc = "")
        => /\ Has(backoffs, last.host)
           /\ backoffs[last.host].attempts >= 1
           /\ backoffs[last.host].until > now

\* C18: with any number of /raw requests in flight, each ledger operation
\* runs without another request's operation inside it, the upstream fetch
\* being the only suspension point; hence a request is either idle or
\* waiting in the fetch, every record that a step stores is exactly the
\* (resumeAt, attemptCount, lastStatus) triple of the one registerFailure
\* call of that step, and k short-backoff registerFailure calls on one host
\* with no clear or expiry between them leave attemptCount = k.
C18_LedgerAtomicity ==
    [][/\ \A r \in Requests : inflight'[r].pc \in {"idle", "fetching"}
       /\ \A h \in Hosts :
              (Has(backoffs', h) /\ Get(backoffs', h) # Get(backoffs, h))
                  => /\ last'.op = "proxy_raw_resume"
                     /\ last'.host = h
                     /\ last'.exc = ""
                     /\ last'.code \in FailureStatuses
                     /\ backoffs'[h] =
                            BackoffRecord(now + timedelta(last'.delay),
                                          IF last'.code \in long_backoff_statuses THEN 1
                                          ELSE PriorAttemptsOf(h) + 1,
                                          last'.code)
       /\ \A h \in Hosts :
              streak'[h] >= 1
                  => /\ Has(backoffs', h)
                     /\ backoffs'[h].attempts = streak'[h]]_vars

\* C18 witness: of two requests in flight at once, the second registers its
\* 429 at the instant the first registered its own.
C18_Witness ==
    /\ last.op = "proxy_raw_resume"
    /\ last.code = 429
    /\ last.prior = Some(BackoffRecord(now + timedelta(30), 1, 429))
    /\ streak[last.host] = 2
    /\ backoffs[last.host] = BackoffRecord(now + timedelta(60), 2, 429)

\* The url texts that pass validation, among those of the requests and one
\* of another host.
ValidatedUrls ==
    {u \in {p[1] : p \in UrlParameters \ {None}} \cup {"http://y/feed"} :
        validate(Some(u)).status = 0}

\* C19: two validated target URLs with the same host but different scheme,
\* port, path or query map to the same ledger key, and URLs with different
\* hosts to different keys; so a request through one URL of a host, made
\* while the window of a record stored through another URL of that host is
\* open, is answered 429 without an upstream call.
C19_HostKey ==
    /\ \A u1, u2 \in ValidatedUrls :
           (validate(Some(u1)).key = validate(Some(u2)).key)
               <=> (URL(u1).host = URL(u2).host)
    /\ (/\ last.op = "proxy_raw"
        /\ CheckedOpenWindow
        /\ via[last.host] # validate(last.url).target)
           => /\ last.status = 429
              /\ ~last.fetch

\* C20: when a /raw request to host H is rejected with 429 because of an
\* active backoff, the whole ledger (H's resumeAt, attemptCount and
\* lastStatus included) is the same after the request as before it: a
\* rejection neither extends the window nor raises the attempt count.
C20_ThrottledFrame ==
    [][\A r \in Requests, url \in UrlParameters :
          (proxy_raw(r, url) /\ last'.status = 429)
              => /\ Has(backoffs, last'.host)
                 /\ backoffs' = backoffs
                 /\ ~last'.fetch]_vars

\* C20 witness: a request has been rejected with 429 and the record it
\* found is still the one stored.
C20_Witness ==
    /\ last.op = "proxy_raw"
    /\ last.status = 429
    /\ last.prior # None
    /\ last.prior[1].attempts = 2
    /\ backoffs[last.host] = last.prior[1]

=============================================================================
